---- MODULE Spec2Model ----
(***************************************************************************)
(* Model of terminal_app/audio.py: the overlapping-segment recorder        *)
(* (RecordingSegment), the scheduler and watcher threads, the serialized   *)
(* transcriber loop and the start/pause/resume/stop/cancel calls of        *)
(* OverlapAudioManager.                                                    *)
(*                                                                         *)
(* Threads are interleaved at their blocking points and lock boundaries.   *)
(* A join with a timeout returns when the joined thread has ended or when  *)
(* the timeout elapses.  Time is not modelled: a timeout may elapse at any *)
(* point while the joined thread is alive, whether that thread is blocked  *)
(* (a device read, the network call or a retry sleep, an empty queue, a    *)
(* join of its own) or has merely not been scheduled yet.  A capture-start *)
(* timestamp is the segment's index (segments are constructed one after    *)
(* another by the scheduler).                                              *)
(* Text is a sequence of characters; character 0 is the space and the      *)
(* character s > 0 is a letter that only segment s's audio produces.       *)
(***************************************************************************)
EXTENDS Integers, Sequences, FiniteSets, TLC

\* ------------------------------------------------------------------ bounds
MaxSegs == 2
MaxWorkers == 2
MaxBlocks == 1
MaxCalls == 4
MaxTSegs == 4
MaxTime == 40
MaxStall == 10

\* the most blocks the statement-level recorder reads
MaxReads == 4

\* the largest token count of one completion
MaxTokens == 2

\* the record() calls followed, the clock's step and its last value
MaxRecords == 3
ClockStep == 20
MaxClock == 160

\* ------------------------------------------------------- program constants
max_retries == 3
INF == 1000
SPACE == 0
segment_gap == 12
segment_duration == 15

\* queue.Queue(): maxsize 0, an unbounded amplitude queue
maxsize == 0

\* RateLimitTracker.RPM_LIMIT and the 60 seconds of record()
RPM_LIMIT == 30
window == 60

Segs == 1..MaxSegs
Workers == 1..MaxWorkers
TSegs == 1..MaxTSegs
NoFile == <<-1>>

VARIABLES
    callerPc,        \* position of the calling thread inside a lifecycle call
    callOp,          \* the call in progress ("none" between calls)
    stopAll,         \* self._stop_all.is_set()
    paused,          \* self._paused
    schedPc,         \* self._scheduler: "none", "run", "spawn", "stopping", "dead"
    stopList,        \* local `active` list of _stop_active_segments / cancel, per thread
    active,          \* self._active
    nextSeg,         \* timestamp of the next RecordingSegment
    segPc,           \* RecordingSegment thread: "none", "rec", "done"
    frames,          \* len(frames) in run(), 0 again once the thread has ended
    stopEvt,         \* segment.stop_event.is_set(), for a thread that has not ended
    files,           \* artifacts that exist on storage
    watching,        \* the segment's watcher thread is alive
    queue,           \* self._pending_queue, ascending
    results,         \* self._results
    transcript,      \* content of transcript_path, NoFile when it does not exist
    transcriber,     \* self._transcriber_thread (0 is None)
    wPc,             \* worker thread: "dead", "poll", "call", "sort", "write"
    wItem,           \* (start_ts, path) held by the worker, 0 when none
    wAttempt,        \* loop variable `attempt` of _transcribe_single
    wTexts,          \* local `texts` of _write_transcript
    firstSeg,        \* history: first timestamp after the latest start() from Idle
                     \*   (0 when the latest start() was called while Paused)
    sinceCancel,     \* history: cancel() has returned and start() has not run since
    pausedTexts,     \* history: letters the transcript held when pause() was called
    calls,           \* history: lifecycle calls that passed their guard so far
    stopPending,     \* history: items queued at stop() call time or filed by that stop()
    cancelActive,    \* history: segments in self._active when the last cancel() was called
    abandoned        \* history: the item in llm.transcribe when stop()'s worker join timed out

\* the schedule in time (specification TimedSpec): the scheduler's spawn loop
\* and the recorders' durations, in seconds
VARIABLES
    now,             \* time.time(), in whole seconds
    tStopAll,        \* self._stop_all.is_set()
    tSchedPc,        \* self._scheduler: "none", "first", "run", "stopping", "dead"
    tWake,           \* when the scheduler's next spawn is due
    tActive,         \* self._active
    tNext,           \* the next RecordingSegment
    tSeg,            \* recorder: "none", "rec", "done", "failed", "gone"
    tStartedAt,      \* segment._started_at, 0 once the segment left _active
    tFailed          \* history: a recorder failed since the latest start()/resume()

\* the locks: who holds them and where each thread is in its code
VARIABLES
    lockOwner,         \* the thread inside a `with self._lock:` block, or "none"
    resultsLockOwner,  \* the thread inside a `with self._results_lock:` block, or "none"
    at                 \* for each thread, the statement it is at

\* one recorder thread, statement by statement
VARIABLES
    recPc,           \* "test", "read", "put", "check", "exit", "done"
    recFrames,       \* len(frames)
    recStop,         \* self.stop_event.is_set()
    recDue,          \* time.time() - start >= self.max_duration
    recFile,         \* the artifact has been written
    sink,            \* self.amplitude_queue.qsize()
    keptAfterStop,   \* history: blocks kept after the stop event was set
    keptAfterDue     \* history: blocks kept after max_duration had elapsed

\* one invocation of call_with_retry
VARIABLES
    rtPc,            \* "start", "parse", "retry", "reparse", "done"
    rtCalls,         \* the calls of call_llm made so far
    rtContents,      \* the contents the calls returned
    rtIn,            \* total_in
    rtOut,           \* total_out
    rtRate,          \* history: a call raised RateLimitError
    rtOutcome,       \* "none", "result" or the exception that leaves the function
    rtBillings,      \* the calls of build_billing made
    rtBilled         \* the totals the last build_billing was given

\* the RateLimitTracker
VARIABLES
    rlNow,           \* time.time()
    requestTimes,    \* self._request_times
    recorded,        \* history: the time of every record() call
    rpm              \* the "rpm" entry of the last stats() result

timeVars == <<now, tStopAll, tSchedPc, tWake, tActive, tNext, tSeg, tStartedAt, tFailed>>

untimedVars == <<callerPc, callOp, stopAll, paused, schedPc, stopList, active, nextSeg,
                 segPc, frames, stopEvt, files, watching, queue, results,
                 transcript, transcriber, wPc, wItem, wAttempt, wTexts,
                 firstSeg, sinceCancel, pausedTexts, calls, stopPending, cancelActive, abandoned>>

lockVars == <<lockOwner, resultsLockOwner, at>>

capVars == <<recPc, recFrames, recStop, recDue, recFile, sink, keptAfterStop, keptAfterDue>>

rtVars == <<rtPc, rtCalls, rtContents, rtIn, rtOut, rtRate, rtOutcome, rtBillings, rtBilled>>

rlVars == <<rlNow, requestTimes, recorded, rpm>>

svcVars == <<rtVars, rlVars>>

vars == <<untimedVars, timeVars, lockVars, capVars, svcVars>>

callerVars == <<callerPc, callOp>>
segVars == <<segPc, frames, stopEvt, watching, nextSeg>>
workerVars == <<wPc, wItem, wAttempt, wTexts>>
histVars == <<firstSeg, sinceCancel, pausedTexts, calls, stopPending, cancelActive, abandoned>>

\* ------------------------------------------------------------ pure helpers
RECURSIVE LStrip(_)
LStrip(t) == IF t # <<>> /\ Head(t) = SPACE THEN LStrip(Tail(t)) ELSE t

RECURSIVE RStrip(_)
RStrip(t) ==
    IF t # <<>> /\ t[Len(t)] = SPACE THEN RStrip(SubSeq(t, 1, Len(t) - 1)) ELSE t

\* str.strip()
Strip(t) == RStrip(LStrip(t))

\* " ".join(texts)
RECURSIVE Join(_)
Join(texts) ==
    IF texts = <<>> THEN <<>>
    ELSE IF Len(texts) = 1 THEN texts[1]
    ELSE texts[1] \o <<SPACE>> \o Join(Tail(texts))

\* a first-in first-out put
PQPutFifo(q, x) == Append(q, x)

\* PriorityQueue.put: the queue is kept ascending by start_ts
RECURSIVE PQPut(_, _)
PQPut(q, x) ==
    IF q = <<>> THEN <<x>>
    ELSE IF x < Head(q) THEN <<x>> \o q
    ELSE <<Head(q)>> \o PQPut(Tail(q), x)

\* sorted(self._results, key=lambda x: x[0]): a stable insertion sort
RECURSIVE InsertByTs(_, _)
InsertByTs(sorted, e) ==
    IF sorted = <<>> THEN <<e>>
    ELSE IF e.ts < Head(sorted).ts THEN <<e>> \o sorted
    ELSE <<Head(sorted)>> \o InsertByTs(Tail(sorted), e)

RECURSIVE SortedByTs(_)
SortedByTs(rs) ==
    IF rs = <<>> THEN <<>>
    ELSE InsertByTs(SortedByTs(SubSeq(rs, 1, Len(rs) - 1)), rs[Len(rs)])

TextsOf(rs) == [i \in 1..Len(rs) |-> rs[i].text]

Range(f) == {f[i] : i \in DOMAIN f}

\* the letters of a text: the segments whose words it holds
Letters(t) == {t[i] : i \in DOMAIN t} \ {SPACE}

\* read_transcript()
read_transcript == IF transcript = NoFile THEN <<>> ELSE transcript

\* the `running` property
running == schedPc \in {"run", "spawn", "stopping"}

\* Thread.is_alive() of a worker slot
Alive(w) == wPc[w] # "dead"

\* a fresh Thread object takes the first worker slot whose thread has ended
FreeWorker == CHOOSE w \in Workers : ~Alive(w) /\ \A v \in Workers : ~Alive(v) => w <= v

\* what llm.transcribe(path) may return for the audio of segment s
TranscribeTexts(s) == {<<>>, <<s>>, <<SPACE, s, SPACE>>}


\* ------------------------------------------------------------------- state
Init ==
    /\ callerPc = "idle"
    /\ callOp = "none"
    /\ stopAll = FALSE
    /\ paused = FALSE
    /\ schedPc = "none"
    /\ stopList = [t \in {"caller", "sched"} |-> <<>>]
    /\ active = <<>>
    /\ nextSeg = 1
    /\ segPc = [s \in Segs |-> "none"]
    /\ frames = [s \in Segs |-> 0]
    /\ stopEvt = [s \in Segs |-> FALSE]
    /\ files = {}
    /\ watching = [s \in Segs |-> FALSE]
    /\ queue = <<>>
    /\ results = <<>>
    /\ transcript = NoFile
    /\ transcriber = 0
    /\ wPc = [w \in Workers |-> "dead"]
    /\ wItem = [w \in Workers |-> 0]
    /\ wAttempt = [w \in Workers |-> 0]
    /\ wTexts = [w \in Workers |-> <<>>]
    /\ firstSeg = 1
    /\ sinceCancel = FALSE
    /\ pausedTexts = {}
    /\ calls = 0
    /\ stopPending = {}
    /\ cancelActive = {}
    /\ abandoned = 0
    /\ now = 0
    /\ tStopAll = FALSE
    /\ tSchedPc = "none"
    /\ tWake = 0
    /\ tActive = <<>>
    /\ tNext = 1
    /\ tSeg = [s \in TSegs |-> "none"]
    /\ tStartedAt = [s \in TSegs |-> 0]
    /\ tFailed = FALSE
    /\ lockOwner = "none"
    /\ resultsLockOwner = "none"
    /\ at = [t \in {"caller", "sched", "watch", "worker", "rec"} |->
               IF t = "caller" THEN "idle" ELSE "off"]
    /\ recPc = "test"
    /\ recFrames = 0
    /\ recStop = FALSE
    /\ recDue = FALSE
    /\ recFile = FALSE
    /\ sink = 0
    /\ keptAfterStop = 0
    /\ keptAfterDue = 0
    /\ rtPc = "start"
    /\ rtCalls = 0
    /\ rtContents = <<>>
    /\ rtIn = 0
    /\ rtOut = 0
    /\ rtRate = FALSE
    /\ rtOutcome = "none"
    /\ rtBillings = 0
    /\ rtBilled = <<0, 0>>
    /\ rlNow = 0
    /\ requestTimes = <<>>
    /\ recorded = <<>>
    /\ rpm = [used |-> 0, remaining |-> RPM_LIMIT]

\* a filer that does not look for the artifact
HasArtifactUnchecked(s) == TRUE

\* `seg.file_path and seg.file_path.exists()`: the artifact exists only once
\* run() has set file_path and written it
HasArtifact(s) == s \in files

\* an unlink that leaves the file where it is
UnlinkNone(S) == files' = files

\* path.unlink(missing_ok=True) for every artifact in S
UnlinkAll(S) == files' = files \ S

\* seg.stop_event.set(); the event of a thread that has ended has no reader
\* left, so it is recorded only while the segment is capturing
SetStop(s) == [stopEvt EXCEPT ![s] = (segPc[s] = "rec")]

\* threading.Thread(target=self._transcriber_loop).start()
SpawnWorker ==
    /\ transcriber' = FreeWorker
    /\ wPc' = [wPc EXCEPT ![FreeWorker] = "poll"]

\* the real (start_ts, path) items of a queue
RealItems(q) == {q[i] : i \in DOMAIN q} \ {INF}

\* ------------------------------------------------------ RecordingSegment.run
\* one pass of the capture loop: stop not observed, one block read and kept
RecRead(s) ==
    /\ segPc[s] = "rec"
    /\ ~stopEvt[s]
    /\ frames[s] < MaxBlocks
    /\ frames' = [frames EXCEPT ![s] = @ + 1]
    /\ UNCHANGED <<callerVars, stopAll, paused, schedPc, stopList, active, nextSeg,
                   segPc, stopEvt, files, watching, queue, results,
                   transcript, transcriber, workerVars, histVars>>
    /\ UNCHANGED <<timeVars, lockVars, capVars, svcVars>>

\* the loop ends (stop observed, or max_duration reached after a block) and the
\* frames, if any, are written to the artifact
RecFinish(s) ==
    /\ segPc[s] = "rec"
    /\ stopEvt[s] \/ frames[s] >= 1
    /\ segPc' = [segPc EXCEPT ![s] = "done"]
    /\ files' = IF frames[s] = 0 THEN files ELSE files \cup {s}
    /\ frames' = [frames EXCEPT ![s] = 0]
    /\ stopEvt' = [stopEvt EXCEPT ![s] = FALSE]
    /\ UNCHANGED <<callerVars, stopAll, paused, schedPc, stopList, active, nextSeg,
                   watching, queue, results, transcript, transcriber, workerVars,
                   histVars>>
    /\ UNCHANGED <<timeVars, lockVars, capVars, svcVars>>

\* a capture that writes the blocks it holds when the device fails
RecErrorKeepsBlocks(s) ==
    /\ segPc[s] = "rec"
    /\ segPc' = [segPc EXCEPT ![s] = "done"]
    /\ files' = IF frames[s] = 0 THEN files ELSE files \cup {s}
    /\ frames' = [frames EXCEPT ![s] = 0]
    /\ stopEvt' = [stopEvt EXCEPT ![s] = FALSE]
    /\ UNCHANGED <<callerVars, stopAll, paused, schedPc, stopList, active, nextSeg,
                   watching, queue, results, transcript, transcriber, workerVars,
                   histVars>>
    /\ UNCHANGED <<timeVars, lockVars, capVars, svcVars>>

\* sd.InputStream or stream.read raises: `except Exception: return`
RecError(s) ==
    /\ segPc[s] = "rec"
    /\ segPc' = [segPc EXCEPT ![s] = "done"]
    /\ frames' = [frames EXCEPT ![s] = 0]
    /\ stopEvt' = [stopEvt EXCEPT ![s] = FALSE]
    /\ UNCHANGED <<callerVars, stopAll, paused, schedPc, stopList, active, nextSeg,
                   files, watching, queue, results, transcript, transcriber,
                   workerVars, histVars>>
    /\ UNCHANGED <<timeVars, lockVars, capVars, svcVars>>

\* ------------------------------------------------------------ _watch_segment
\* a watcher that does not look whether the segment is still active
StillActiveUnchecked(s) == TRUE

\* `if segment in self._active`
StillActive(s) == s \in Range(active)

Watch(s) ==
    /\ watching[s]
    /\ segPc[s] = "done"
    /\ watching' = [watching EXCEPT ![s] = FALSE]
    /\ IF StillActive(s)
       THEN /\ active' = SelectSeq(active, LAMBDA x : x # s)
            /\ queue' = IF HasArtifact(s) THEN PQPut(queue, s) ELSE queue
       ELSE UNCHANGED <<active, queue>>
    /\ UNCHANGED <<callerVars, stopAll, paused, schedPc, stopList, nextSeg, segPc,
                   frames, stopEvt, files, results, transcript,
                   transcriber, workerVars, histVars>>
    /\ UNCHANGED <<timeVars, lockVars, capVars, svcVars>>

\* ----------------------------------------------------------------- _schedule
\* a loop test that does not look at the stop signal
LoopTestUnchecked == TRUE

\* `while not self._stop_all.is_set()`
LoopTest == ~stopAll

\* the loop test passes: the scheduler goes on to construct a segment
SchedCheck ==
    /\ schedPc = "run"
    /\ LoopTest
    /\ nextSeg <= MaxSegs
    /\ schedPc' = "spawn"
    /\ UNCHANGED <<callerVars, stopAll, paused, stopList, active, segVars, files,
                   queue, results, transcript, transcriber, workerVars, histVars>>
    /\ UNCHANGED <<timeVars, lockVars, capVars, svcVars>>

\* the body of the spawn loop: a segment is appended under the lock and
\* started with its watcher; the scheduler then waits for the gap or the stop
SchedSpawn ==
    /\ schedPc = "spawn"
    /\ schedPc' = "run"
    /\ active' = Append(active, nextSeg)
    /\ segPc' = [segPc EXCEPT ![nextSeg] = "rec"]
    /\ watching' = [watching EXCEPT ![nextSeg] = TRUE]
    /\ nextSeg' = nextSeg + 1
    /\ UNCHANGED <<callerVars, stopAll, paused, stopList, frames, stopEvt,
                   files, queue, results, transcript, transcriber,
                   workerVars, histVars>>
    /\ UNCHANGED <<timeVars, lockVars, capVars, svcVars>>

\* the loop sees _stop_all set and enters _stop_active_segments: the active
\* list is taken under the lock and the first segment is told to stop
SchedBreak ==
    /\ schedPc = "run"
    /\ stopAll
    /\ active' = <<>>
    /\ stopList' = [stopList EXCEPT !["sched"] = active]
    /\ IF active = <<>>
       THEN schedPc' = "dead" /\ UNCHANGED stopEvt
       ELSE /\ schedPc' = "stopping"
            /\ stopEvt' = SetStop(Head(active))
    /\ UNCHANGED <<callerVars, stopAll, paused, nextSeg, segPc, frames,
                   files, watching, queue, results, transcript, transcriber,
                   workerVars, histVars>>
    /\ UNCHANGED <<timeVars, lockVars, capVars, svcVars>>

\* seg.join(timeout=3) returns in the scheduler's _stop_active_segments: the
\* artifact, if there is one, is filed and the next segment is told to stop
SchedJoinSeg ==
    /\ schedPc = "stopping"
    /\ LET s == Head(stopList["sched"])
           rest == Tail(stopList["sched"])
       IN /\ queue' = IF HasArtifact(s) THEN PQPut(queue, s) ELSE queue
          /\ stopList' = [stopList EXCEPT !["sched"] = rest]
          /\ IF rest = <<>>
             THEN schedPc' = "dead" /\ UNCHANGED stopEvt
             ELSE /\ schedPc' = "stopping"
                  /\ stopEvt' = SetStop(Head(rest))
    /\ UNCHANGED <<callerVars, stopAll, paused, active, nextSeg, segPc, frames,
                   files, watching, results, transcript, transcriber,
                   workerVars, histVars>>
    /\ UNCHANGED <<timeVars, lockVars, capVars, svcVars>>


\* --------------------------------------------------------- _transcriber_loop
\* a get that leaves the item on the queue
DequeuedKept(q) == q

\* the queue after get() has taken its smallest item
Dequeued(q) == Tail(q)

\* self._pending_queue.get(timeout=0.5) returns the smallest item; the sentinel
\* (inf, None) ends the thread
WGet(w) ==
    /\ wPc[w] = "poll"
    /\ queue # <<>>
    /\ queue' = Dequeued(queue)
    /\ IF Head(queue) = INF
       THEN /\ wPc' = [wPc EXCEPT ![w] = "dead"]
            /\ UNCHANGED <<wItem, wAttempt>>
       ELSE /\ wPc' = [wPc EXCEPT ![w] = "call"]
            /\ wItem' = [wItem EXCEPT ![w] = Head(queue)]
            /\ wAttempt' = [wAttempt EXCEPT ![w] = 0]
    /\ UNCHANGED <<callerVars, stopAll, paused, schedPc, stopList, active, segVars,
                   files, results, transcript, transcriber, wTexts, histVars>>
    /\ UNCHANGED <<timeVars, lockVars, capVars, svcVars>>

\* _transcribe_single returned `text` to the loop: a non-empty text is appended
\* (stripped) under the results lock, an empty one goes straight to the unlink
WReturn(w, text) ==
    IF text # <<>>
    THEN /\ results' = Append(results, [ts |-> wItem[w], text |-> Strip(text)])
         /\ wPc' = [wPc EXCEPT ![w] = "sort"]
         /\ UNCHANGED <<wItem, wAttempt, files>>
    ELSE /\ UnlinkAll({wItem[w]})
         /\ wPc' = [wPc EXCEPT ![w] = "poll"]
         /\ wItem' = [wItem EXCEPT ![w] = 0]
         /\ wAttempt' = [wAttempt EXCEPT ![w] = 0]
         /\ UNCHANGED results

\* llm.transcribe(path) returns: `return self.llm.transcribe(str(path)) or ""`
WCallOk(w) ==
    /\ wPc[w] = "call"
    /\ \E text \in TranscribeTexts(wItem[w]) : WReturn(w, text)
    /\ UNCHANGED <<callerVars, stopAll, paused, schedPc, stopList, active, segVars,
                   queue, transcript, transcriber, wTexts, firstSeg, sinceCancel,
                   pausedTexts, calls, stopPending, cancelActive, abandoned>>
    /\ UNCHANGED <<timeVars, lockVars, capVars, svcVars>>

\* a retry loop that allows one attempt more
LastAttemptLate(a) == a = max_retries + 1

\* a retry loop that gives up one attempt early
LastAttemptEarly(a) == a = max_retries - 1

\* the retry loop gives up when `attempt == self.max_retries`
LastAttempt(a) == a = max_retries

\* llm.transcribe(path) raises GroqRateLimitError ("rate") or another Exception
\* ("error"): the last attempt returns "", an earlier one sleeps and retries
WCallFail(w) ==
    /\ wPc[w] = "call"
    /\ \E kind \in {"rate", "error"} :
          IF LastAttempt(wAttempt[w])
          THEN WReturn(w, <<>>)
          ELSE /\ wAttempt' = [wAttempt EXCEPT ![w] = @ + 1]
               /\ UNCHANGED <<wPc, wItem, results, files>>
    /\ UNCHANGED <<callerVars, stopAll, paused, schedPc, stopList, active, segVars,
                   queue, transcript, transcriber, wTexts, firstSeg, sinceCancel,
                   pausedTexts, calls, stopPending, cancelActive, abandoned>>
    /\ UNCHANGED <<timeVars, lockVars, capVars, svcVars>>

\* _write_transcript, under the results lock: the texts in start_ts order
SortedTexts == TextsOf(SortedByTs(results))

WSort(w) ==
    /\ wPc[w] = "sort"
    /\ wTexts' = [wTexts EXCEPT ![w] = SortedTexts]
    /\ wPc' = [wPc EXCEPT ![w] = "write"]
    /\ UNCHANGED <<callerVars, stopAll, paused, schedPc, stopList, active, segVars,
                   files, queue, results, transcript, transcriber, wItem, wAttempt,
                   histVars>>
    /\ UNCHANGED <<timeVars, lockVars, capVars, svcVars>>

\* _write_transcript, after the lock: the file is overwritten when there are
\* texts; then the loop unlinks the artifact and polls again
WWrite(w) ==
    /\ wPc[w] = "write"
    /\ transcript' = IF wTexts[w] # <<>> THEN Join(wTexts[w]) ELSE transcript
    /\ UnlinkAll({wItem[w]})
    /\ wPc' = [wPc EXCEPT ![w] = "poll"]
    /\ wItem' = [wItem EXCEPT ![w] = 0]
    /\ wAttempt' = [wAttempt EXCEPT ![w] = 0]
    /\ wTexts' = [wTexts EXCEPT ![w] = <<>>]
    /\ UNCHANGED <<callerVars, stopAll, paused, schedPc, stopList, active, segVars,
                   queue, results, transcriber, firstSeg, sinceCancel,
                   pausedTexts, calls, stopPending, cancelActive, abandoned>>
    /\ UNCHANGED <<timeVars, lockVars, capVars, svcVars>>


\* ------------------------------------------------------------ joins with timeout
\* a recorder thread that has not ended sits in stream.read or will leave
\* the loop at its next check
SegBlocked(s) == segPc[s] = "rec"

\* the scheduler thread waits in seg.join(timeout=3) for a running recorder
SchedBlocked == schedPc = "stopping" /\ SegBlocked(Head(stopList["sched"]))

\* a worker thread is inside _transcribe_single (network call, retry sleep)
\* or polls an empty queue
WorkerBlocked(w) == wPc[w] = "call" \/ (wPc[w] = "poll" /\ queue = <<>>)

\* `if self._scheduler: self._scheduler.join(timeout=2)` returns: there is no
\* scheduler, it has ended, or the timeout has elapsed
SchedJoinReturns == schedPc \in {"none", "dead"} \/ running

\* a join of the transcriber thread without a timeout
WorkerJoinNoTimeout == ~Alive(transcriber)

\* self._transcriber_thread.join(timeout=...) returns: the thread has ended
\* or the timeout has elapsed
WorkerJoinReturns == ~Alive(transcriber) \/ Alive(transcriber)

\* ------------------------------------------------------------ lifecycle calls
\* a guard of start/pause/resume returned at once
Return ==
    /\ callerPc = "noop"
    /\ callerPc' = "idle"
    /\ callOp' = "none"
    /\ UNCHANGED <<stopAll, paused, schedPc, stopList, active, segVars, files, queue,
                   results, transcript, transcriber, workerVars, histVars>>
    /\ UNCHANGED <<timeVars, lockVars, capVars, svcVars>>

\* a call that passes its guard is counted, up to MaxCalls
Counted == calls < MaxCalls /\ calls' = calls + 1

\* start() without its guard
StartRefusedNever == FALSE

\* `if self.running: return` of start()
StartRefused == running

\* start(): the guard, then _paused, a fresh _stop_all and clear_transcript()
CallStart ==
    /\ callerPc = "idle"
    /\ callOp' = "start"
    /\ IF StartRefused
       THEN /\ callerPc' = "noop"
            /\ UNCHANGED <<stopAll, paused, transcript, firstSeg, sinceCancel,
                           pausedTexts, calls>>
       ELSE /\ \E w \in Workers : ~Alive(w)
            /\ Counted
            /\ callerPc' = "start_results"
            /\ paused' = FALSE
            /\ stopAll' = FALSE
            /\ transcript' = NoFile
            /\ firstSeg' = IF paused THEN 0 ELSE nextSeg
            /\ sinceCancel' = FALSE
            /\ pausedTexts' = {}
    /\ UNCHANGED <<schedPc, stopList, active, segVars, files, queue, results,
                   transcriber, workerVars, stopPending>>
    /\ cancelActive' = IF StartRefused THEN cancelActive ELSE {}
    /\ abandoned' = IF StartRefused THEN abandoned ELSE 0
    /\ UNCHANGED <<timeVars, lockVars, capVars, svcVars>>

\* start(): `with self._results_lock: self._results.clear()`
StartResults ==
    /\ callerPc = "start_results"
    /\ callerPc' = "start_spawn"
    /\ results' = <<>>
    /\ UNCHANGED <<callOp, stopAll, paused, schedPc, stopList, active, segVars, files,
                   queue, transcript, transcriber, workerVars, histVars>>
    /\ UNCHANGED <<timeVars, lockVars, capVars, svcVars>>

\* start(): the pending queue is emptied with get_nowait(), then the
\* transcriber thread and the scheduler thread are started
StartSpawn ==
    /\ callerPc = "start_spawn"
    /\ callerPc' = "idle"
    /\ callOp' = "none"
    /\ queue' = <<>>
    /\ SpawnWorker
    /\ schedPc' = "run"
    /\ UNCHANGED <<stopAll, paused, stopList, active, segVars, files, results,
                   transcript, wItem, wAttempt, wTexts, histVars>>
    /\ UNCHANGED <<timeVars, lockVars, capVars, svcVars>>

\* resume() without its second guard
ResumeRefusedWhenRunning == running

\* resume(): `if self.running: return` and `if not self._paused: return`
ResumeRefused == running \/ ~paused

\* resume(): `self._transcriber_thread is None or not ....is_alive()`
NeedsWorker == transcriber = 0 \/ ~Alive(transcriber)

\* resume(): the guards, then the transcriber (if needed) and the scheduler
CallResume ==
    /\ callerPc = "idle"
    /\ IF ResumeRefused
       THEN /\ callerPc' = "noop"
            /\ callOp' = "resume"
            /\ UNCHANGED <<stopAll, paused, schedPc, transcriber, wPc, calls>>
       ELSE /\ NeedsWorker => \E w \in Workers : ~Alive(w)
            /\ Counted
            /\ UNCHANGED callerVars
            /\ paused' = FALSE
            /\ stopAll' = FALSE
            /\ IF NeedsWorker THEN SpawnWorker ELSE UNCHANGED <<transcriber, wPc>>
            /\ schedPc' = "run"
    /\ UNCHANGED <<stopList, active, segVars, files, queue, results, transcript,
                   wItem, wAttempt, wTexts, firstSeg, sinceCancel,
                   pausedTexts, stopPending, cancelActive, abandoned>>
    /\ UNCHANGED <<timeVars, lockVars, capVars, svcVars>>

\* _shutdown(paused): `self._paused = paused; self._stop_all.set()`
BeginShutdown(p) ==
    /\ callerPc' = "sd_sched"
    /\ paused' = p
    /\ stopAll' = TRUE

\* pause(): `if self.running: self._shutdown(paused=True)`
CallPause ==
    /\ callerPc = "idle"
    /\ callOp' = "pause"
    /\ IF running
       THEN /\ BeginShutdown(TRUE)
            /\ Counted
            /\ pausedTexts' = pausedTexts \cup Letters(read_transcript)
       ELSE callerPc' = "noop" /\ UNCHANGED <<paused, stopAll, calls, pausedTexts>>
    /\ UNCHANGED <<schedPc, stopList, active, segVars, files, queue, results,
                   transcript, transcriber, workerVars, firstSeg, sinceCancel,
                   stopPending, cancelActive, abandoned>>
    /\ UNCHANGED <<timeVars, lockVars, capVars, svcVars>>

\* stop(): `self._shutdown(paused=False)`
CallStop ==
    /\ callerPc = "idle"
    /\ callOp' = "stop"
    /\ BeginShutdown(FALSE)
    /\ Counted
    /\ stopPending' = RealItems(queue)
    /\ UNCHANGED <<cancelActive, abandoned>>
    /\ UNCHANGED <<schedPc, stopList, active, segVars, files, queue, results,
                   transcript, transcriber, workerVars, firstSeg, sinceCancel>>
    /\ pausedTexts' = {}
    /\ UNCHANGED <<timeVars, lockVars, capVars, svcVars>>

\* _shutdown: the sentinel is put on the queue q; the call then joins the
\* transcriber thread, or returns when there is none
PutSentinel(q) ==
    /\ queue' = PQPut(q, INF)
    /\ IF transcriber # 0
       THEN callerPc' = "sd_worker" /\ UNCHANGED callOp
       ELSE callerPc' = "idle" /\ callOp' = "none"

\* history: the items a stop() in progress has found queued or filed itself,
\* the one its _stop_active_segments is about to file included
StopFiled ==
    stopPending \cup
        (IF callerPc = "sd_segs" /\ callOp = "stop" /\ HasArtifact(Head(stopList["caller"]))
         THEN {Head(stopList["caller"])} ELSE {})

\* _shutdown: self._scheduler.join(timeout=2) returns (or there is no
\* scheduler) and _stop_active_segments takes the active list under the lock
SdJoinSched ==
    /\ callerPc = "sd_sched"
    /\ SchedJoinReturns
    /\ active' = <<>>
    /\ stopList' = [stopList EXCEPT !["caller"] = active]
    /\ IF active = <<>>
       THEN PutSentinel(queue) /\ UNCHANGED stopEvt
       ELSE /\ callerPc' = "sd_segs"
            /\ stopEvt' = SetStop(Head(active))
            /\ UNCHANGED <<callOp, queue>>
    /\ stopPending' = IF callerPc' = "idle" THEN {} ELSE stopPending
    /\ UNCHANGED <<cancelActive, abandoned>>
    /\ UNCHANGED <<stopAll, paused, schedPc, nextSeg, segPc, frames, files,
                   watching, results, transcript, transcriber, workerVars,
                   firstSeg, sinceCancel, pausedTexts,
                   calls>>
    /\ UNCHANGED <<timeVars, lockVars, capVars, svcVars>>

\* _stop_active_segments in the caller: seg.join(timeout=3) returns, the
\* artifact, if there is one, is filed and the next segment is told to stop
SdJoinSeg ==
    /\ callerPc = "sd_segs"
    /\ LET s == Head(stopList["caller"])
           rest == Tail(stopList["caller"])
           q == IF HasArtifact(s) THEN PQPut(queue, s) ELSE queue
       IN /\ stopList' = [stopList EXCEPT !["caller"] = rest]
          /\ IF rest = <<>>
             THEN PutSentinel(q) /\ UNCHANGED stopEvt
             ELSE /\ queue' = q
                  /\ stopEvt' = SetStop(Head(rest))
                  /\ UNCHANGED callerVars
          /\ stopPending' = IF callerPc' = "idle" THEN {} ELSE StopFiled
          /\ UNCHANGED <<cancelActive, abandoned>>
    /\ UNCHANGED <<stopAll, paused, schedPc, active, nextSeg, segPc, frames,
                   files, watching, results, transcript, transcriber, workerVars,
                   firstSeg, sinceCancel, pausedTexts,
                   calls>>
    /\ UNCHANGED <<timeVars, lockVars, capVars, svcVars>>

\* _shutdown: self._transcriber_thread.join(timeout=30) returns and the
\* handle is dropped
SdJoinWorker ==
    /\ callerPc = "sd_worker"
    /\ WorkerJoinReturns
    /\ callerPc' = "idle"
    /\ callOp' = "none"
    /\ transcriber' = 0
    /\ stopPending' = {}
    /\ UNCHANGED cancelActive
    /\ abandoned' = IF callOp = "stop" /\ wPc[transcriber] = "call"
                    THEN wItem[transcriber] ELSE abandoned
    /\ UNCHANGED <<stopAll, paused, schedPc, stopList, active, segVars, files, queue,
                   results, transcript, workerVars, firstSeg, sinceCancel, pausedTexts,
                   calls>>
    /\ UNCHANGED <<timeVars, lockVars, capVars, svcVars>>


\* cancel(): `self._stop_all.set()`
CallCancel ==
    /\ callerPc = "idle"
    /\ callerPc' = "cn_sched"
    /\ callOp' = "cancel"
    /\ stopAll' = TRUE
    /\ Counted
    /\ pausedTexts' = {}
    /\ cancelActive' = Range(active)
    /\ UNCHANGED abandoned
    /\ UNCHANGED <<paused, schedPc, stopList, active, segVars, files, queue, results,
                   transcript, transcriber, workerVars, firstSeg, sinceCancel,
                   stopPending>>
    /\ UNCHANGED <<timeVars, lockVars, capVars, svcVars>>

\* cancel(): the artifacts in S are unlinked, then the pending queue is
\* emptied with get_nowait(), unlinking every path, and the sentinel is put;
\* the call goes on to join the transcriber thread if there is one
CancelDrain(S) ==
    /\ UnlinkAll(S \cup RealItems(queue))
    /\ queue' = <<INF>>
    /\ callerPc' = IF transcriber # 0 THEN "cn_worker" ELSE "cn_results"

\* cancel(): self._scheduler.join(timeout=2) returns (or there is no
\* scheduler) and the active list is taken under the lock
CnJoinSched ==
    /\ callerPc = "cn_sched"
    /\ SchedJoinReturns
    /\ active' = <<>>
    /\ stopList' = [stopList EXCEPT !["caller"] = active]
    /\ IF active = <<>>
       THEN CancelDrain({}) /\ UNCHANGED stopEvt
       ELSE /\ callerPc' = "cn_segs"
            /\ stopEvt' = SetStop(Head(active))
            /\ UNCHANGED <<queue, files>>
    /\ UNCHANGED <<callOp, stopAll, paused, schedPc, nextSeg, segPc, frames,
                   watching, results, transcript, transcriber, workerVars, firstSeg,
                   sinceCancel, pausedTexts, calls, stopPending, cancelActive, abandoned>>
    /\ UNCHANGED <<timeVars, lockVars, capVars, svcVars>>

\* cancel(): seg.join(timeout=2) returns, the artifact, if there is one, is
\* unlinked and the next segment is told to stop
CnJoinSeg ==
    /\ callerPc = "cn_segs"
    /\ LET s == Head(stopList["caller"])
           rest == Tail(stopList["caller"])
           gone == IF HasArtifact(s) THEN {s} ELSE {}
       IN /\ stopList' = [stopList EXCEPT !["caller"] = rest]
          /\ IF rest = <<>>
             THEN CancelDrain(gone) /\ UNCHANGED stopEvt
             ELSE /\ UnlinkAll(gone)
                  /\ stopEvt' = SetStop(Head(rest))
                  /\ UNCHANGED <<callerPc, queue>>
    /\ UNCHANGED <<callOp, stopAll, paused, schedPc, active, nextSeg, segPc, frames,
                   watching, results, transcript, transcriber, workerVars,
                   firstSeg, sinceCancel,
                   pausedTexts, calls, stopPending, cancelActive, abandoned>>
    /\ UNCHANGED <<timeVars, lockVars, capVars, svcVars>>

\* cancel(): self._transcriber_thread.join(timeout=5) returns and the handle
\* is dropped
CnJoinWorker ==
    /\ callerPc = "cn_worker"
    /\ WorkerJoinReturns
    /\ callerPc' = "cn_results"
    /\ transcriber' = 0
    /\ UNCHANGED <<callOp, stopAll, paused, schedPc, stopList, active, segVars, files,
                   queue, results, transcript, workerVars, histVars>>
    /\ UNCHANGED <<timeVars, lockVars, capVars, svcVars>>

\* cancel(): `with self._results_lock: self._results.clear()`
CnResults ==
    /\ callerPc = "cn_results"
    /\ callerPc' = "cn_transcript"
    /\ results' = <<>>
    /\ UNCHANGED <<callOp, stopAll, paused, schedPc, stopList, active, segVars, files,
                   queue, transcript, transcriber, workerVars, histVars>>
    /\ UNCHANGED <<timeVars, lockVars, capVars, svcVars>>

\* cancel(): `self.clear_transcript(); self._paused = False`, and the return
CnTranscript ==
    /\ callerPc = "cn_transcript"
    /\ callerPc' = "idle"
    /\ callOp' = "none"
    /\ transcript' = NoFile
    /\ paused' = FALSE
    /\ sinceCancel' = TRUE
    /\ UNCHANGED <<stopAll, schedPc, stopList, active, segVars, files, queue, results,
                   transcriber, workerVars, firstSeg, pausedTexts, calls,
                   stopPending, cancelActive, abandoned>>
    /\ UNCHANGED <<timeVars, lockVars, capVars, svcVars>>

\* ------------------------------------------------------------- specification
CallerStep ==
    \/ Return
    \/ StartResults \/ StartSpawn
    \/ SdJoinSched \/ SdJoinSeg \/ SdJoinWorker
    \/ CnJoinSched \/ CnJoinSeg \/ CnJoinWorker \/ CnResults \/ CnTranscript

Call == CallStart \/ CallResume \/ CallPause \/ CallStop \/ CallCancel

SegmentStep == \E s \in Segs : RecRead(s) \/ RecFinish(s) \/ RecError(s) \/ Watch(s)

SchedulerStep == SchedCheck \/ SchedSpawn \/ SchedBreak \/ SchedJoinSeg

WorkerStep == \E w \in Workers : WGet(w) \/ WCallOk(w) \/ WCallFail(w) \/ WSort(w) \/ WWrite(w)

Next == Call \/ CallerStep \/ SegmentStep \/ SchedulerStep \/ WorkerStep

Spec == Init /\ [][Next]_vars



\* ------------------------------------------------------- the schedule in time
\* The scheduler loop, the recorders' durations and the watcher's removal,
\* with a clock in seconds.  A step that its thread can take at once (a spawn
\* that is due, the loop's exit after the stop signal, a watcher's removal of
\* a recorder that has ended) is taken before the clock moves on; a recorder
\* leaves its loop at the first check after max_duration, which a slow device
\* read or a slow write delays by up to MaxStall.

\* the scheduler thread is alive
tRunning == tSchedPc \in {"first", "run", "stopping"}

\* a scheduler whose wait is half the gap
NextWakeEarly(t) == t + segment_gap \div 2

\* a scheduler whose wait is longer than a segment
NextWakeLate(t) == t + segment_duration + 1

\* `self._stop_all.wait(self.segment_gap)` times out segment_gap after t
NextWake(t) == t + segment_gap

\* the segments of a taken list are told to stop and leave this view
Taken(S) == [s \in TSegs |-> IF s \in S THEN "gone" ELSE tSeg[s]]

\* _started_at of the segments that stay in _active
KeptStart(S) == [s \in TSegs |-> IF s \in S THEN 0 ELSE tStartedAt[s]]

\* start(), or resume() in the Paused state: a fresh _stop_all and a new
\* scheduler thread, whose first spawn is due at once
TBegin ==
    /\ ~tRunning
    /\ tStopAll' = FALSE
    /\ tSchedPc' = "first"
    /\ tWake' = now
    /\ tFailed' = FALSE
    /\ UNCHANGED <<now, tActive, tNext, tSeg, tStartedAt>>
    /\ UNCHANGED <<untimedVars, lockVars, capVars, svcVars>>

\* pause(), stop() or cancel(): `self._stop_all.set()`
TSignalStop ==
    /\ ~tStopAll
    /\ tSchedPc # "none"
    /\ tStopAll' = TRUE
    /\ UNCHANGED <<now, tSchedPc, tWake, tActive, tNext, tSeg, tStartedAt, tFailed>>
    /\ UNCHANGED <<untimedVars, lockVars, capVars, svcVars>>

\* the caller's _stop_active_segments (or cancel's swap): the active list is
\* taken under the lock and its segments are told to stop
TCallerTake ==
    /\ tStopAll
    /\ tActive # <<>>
    /\ tActive' = <<>>
    /\ tSeg' = Taken(Range(tActive))
    /\ tStartedAt' = KeptStart(Range(tActive))
    /\ UNCHANGED <<now, tStopAll, tSchedPc, tWake, tNext, tFailed>>
    /\ UNCHANGED <<untimedVars, lockVars, capVars, svcVars>>

\* one pass of the spawn loop, when the first spawn or the wait's timeout is due
TSpawn ==
    /\ tSchedPc \in {"first", "run"}
    /\ ~tStopAll
    /\ now >= tWake
    /\ tNext <= MaxTSegs
    /\ tActive' = Append(tActive, tNext)
    /\ tSeg' = [tSeg EXCEPT ![tNext] = "rec"]
    /\ tStartedAt' = [tStartedAt EXCEPT ![tNext] = now]
    /\ tNext' = tNext + 1
    /\ tWake' = NextWake(now)
    /\ tSchedPc' = "run"
    /\ UNCHANGED <<now, tStopAll, tFailed>>
    /\ UNCHANGED <<untimedVars, lockVars, capVars, svcVars>>

\* the loop sees _stop_all set; _stop_active_segments takes the active list
TSchedBreak ==
    /\ tSchedPc \in {"first", "run"}
    /\ tStopAll
    /\ tSchedPc' = "stopping"
    /\ tActive' = <<>>
    /\ tSeg' = Taken(Range(tActive))
    /\ tStartedAt' = KeptStart(Range(tActive))
    /\ UNCHANGED <<now, tStopAll, tWake, tNext, tFailed>>
    /\ UNCHANGED <<untimedVars, lockVars, capVars, svcVars>>

\* the scheduler's joins have returned and the thread ends
TSchedEnd ==
    /\ tSchedPc = "stopping"
    /\ tSchedPc' = "dead"
    /\ UNCHANGED <<now, tStopAll, tWake, tActive, tNext, tSeg, tStartedAt, tFailed>>
    /\ UNCHANGED <<untimedVars, lockVars, capVars, svcVars>>

\* a recorder that was not told to stop leaves its loop: max_duration reached
TSegFinish(s) ==
    /\ tSeg[s] = "rec"
    /\ now >= tStartedAt[s] + segment_duration
    /\ tSeg' = [tSeg EXCEPT ![s] = "done"]
    /\ UNCHANGED <<now, tStopAll, tSchedPc, tWake, tActive, tNext, tStartedAt, tFailed>>
    /\ UNCHANGED <<untimedVars, lockVars, capVars, svcVars>>

\* sd.InputStream or stream.read raises: `except Exception: return`
TSegError(s) ==
    /\ tSeg[s] = "rec"
    /\ tSeg' = [tSeg EXCEPT ![s] = "failed"]
    /\ tFailed' = TRUE
    /\ UNCHANGED <<now, tStopAll, tSchedPc, tWake, tActive, tNext, tStartedAt>>
    /\ UNCHANGED <<untimedVars, lockVars, capVars, svcVars>>

\* _watch_segment: the recorder's thread has ended and it is taken out of _active
TWatch(s) ==
    /\ tSeg[s] \in {"done", "failed"}
    /\ s \in Range(tActive)
    /\ tActive' = SelectSeq(tActive, LAMBDA x : x # s)
    /\ tSeg' = Taken({s})
    /\ tStartedAt' = KeptStart({s})
    /\ UNCHANGED <<now, tStopAll, tSchedPc, tWake, tNext, tFailed>>
    /\ UNCHANGED <<untimedVars, lockVars, capVars, svcVars>>

\* the scheduler thread has a step it takes at once
SchedDue == tSchedPc \in {"first", "run"} /\ (tStopAll \/ now >= tWake)

\* one second passes
Tick ==
    /\ now < MaxTime
    /\ ~SchedDue
    /\ \A s \in Range(tActive) :
          tSeg[s] = "rec" /\ now < tStartedAt[s] + segment_duration + MaxStall
    /\ now' = now + 1
    /\ UNCHANGED <<tStopAll, tSchedPc, tWake, tActive, tNext, tSeg, tStartedAt, tFailed>>
    /\ UNCHANGED <<untimedVars, lockVars, capVars, svcVars>>

TCall == TBegin \/ TSignalStop \/ TCallerTake

TSchedulerStep == TSpawn \/ TSchedBreak \/ TSchedEnd

TSegmentStep == \E s \in TSegs : TSegFinish(s) \/ TSegError(s) \/ TWatch(s)

TimedNext == TCall \/ TSchedulerStep \/ TSegmentStep \/ Tick

TimedSpec == Init /\ [][TimedNext]_vars

\* ------------------------------------------------- the two locks of the manager
\* Who holds self._lock and self._results_lock, and where every thread is in
\* its code. Each thread function is followed statement by statement from one
\* `with` block or blocking call to the next; the data the statements work on
\* is left to the specification above. One thread of each kind is followed,
\* and a thread function may begin whenever its thread is not running.
LThreads == {"caller", "sched", "watch", "worker", "rec"}

\* a `with` block left without releasing the lock
LeaveKeepsLock(t, from, to) ==
    /\ at[t] = from
    /\ lockOwner = t
    /\ at' = [at EXCEPT ![t] = to]
    /\ UNCHANGED <<lockOwner, resultsLockOwner, untimedVars, timeVars, capVars, svcVars>>

\* the thread goes from one statement to another without touching a lock
Go(t, from, to) ==
    /\ at[t] = from
    /\ at' = [at EXCEPT ![t] = to]
    /\ UNCHANGED <<lockOwner, resultsLockOwner, untimedVars, timeVars, capVars, svcVars>>

\* `with self._lock:` is entered
Enter(t, from, to) ==
    /\ at[t] = from
    /\ lockOwner = "none"
    /\ lockOwner' = t
    /\ at' = [at EXCEPT ![t] = to]
    /\ UNCHANGED <<resultsLockOwner, untimedVars, timeVars, capVars, svcVars>>

\* the end of a `with self._lock:` block
Leave(t, from, to) ==
    /\ at[t] = from
    /\ lockOwner = t
    /\ lockOwner' = "none"
    /\ at' = [at EXCEPT ![t] = to]
    /\ UNCHANGED <<resultsLockOwner, untimedVars, timeVars, capVars, svcVars>>

\* `with self._results_lock:` is entered
EnterResults(t, from, to) ==
    /\ at[t] = from
    /\ resultsLockOwner = "none"
    /\ resultsLockOwner' = t
    /\ at' = [at EXCEPT ![t] = to]
    /\ UNCHANGED <<lockOwner, untimedVars, timeVars, capVars, svcVars>>

\* a `with self._results_lock:` block left without releasing the lock
LeaveResultsKeepsLock(t, from, to) ==
    /\ at[t] = from
    /\ resultsLockOwner = t
    /\ at' = [at EXCEPT ![t] = to]
    /\ UNCHANGED <<lockOwner, resultsLockOwner, untimedVars, timeVars, capVars, svcVars>>

\* the end of a `with self._results_lock:` block
LeaveResults(t, from, to) ==
    /\ at[t] = from
    /\ resultsLockOwner = t
    /\ resultsLockOwner' = "none"
    /\ at' = [at EXCEPT ![t] = to]
    /\ UNCHANGED <<lockOwner, untimedVars, timeVars, capVars, svcVars>>

\* RecordingSegment.run: the stream.read loop, then the write of the artifact
LkRecorder ==
    \/ Go("rec", "off", "read")
    \/ Go("rec", "read", "read")
    \/ Go("rec", "read", "write")
    \/ Go("rec", "read", "off")
    \/ Go("rec", "write", "off")

\* _watch_segment: segment.join(), then remove, exists() and put under the lock
LkWatcher ==
    \/ Go("watch", "off", "join")
    \/ Enter("watch", "join", "remove")
    \/ Go("watch", "remove", "put")
    \/ Leave("watch", "remove", "off")
    \/ Leave("watch", "put", "off")

\* _schedule: the append under the lock, the starts, the wait on _stop_all
LkSchedule ==
    \/ Go("sched", "off", "test")
    \/ Go("sched", "test", "build")
    \/ Enter("sched", "build", "append")
    \/ Leave("sched", "append", "wait")
    \/ Go("sched", "wait", "test")
    \/ Go("sched", "wait", "stop")
    \/ Go("sched", "test", "stop")

\* _stop_active_segments on thread t: the list is taken under the lock; each
\* segment is then signalled and joined, and its artifact is put on the queue
LkStopActive(t, after) ==
    \/ Enter(t, "stop", "take")
    \/ Leave(t, "take", "each")
    \/ Go(t, "each", "join_seg")
    \/ Go(t, "join_seg", "each")
    \/ Go(t, "each", after)

\* _transcriber_loop, _transcribe_single and _write_transcript
LkWorker ==
    \/ Go("worker", "off", "get")
    \/ Go("worker", "get", "get")
    \/ Go("worker", "get", "off")
    \/ Go("worker", "get", "call")
    \/ Go("worker", "call", "sleep")
    \/ Go("worker", "sleep", "call")
    \/ Go("worker", "call", "unlink")
    \/ EnterResults("worker", "call", "append")
    \/ LeaveResults("worker", "append", "written")
    \/ EnterResults("worker", "written", "sort")
    \/ LeaveResults("worker", "sort", "file")
    \/ Go("worker", "file", "unlink")
    \/ Go("worker", "unlink", "get")

\* start(): clear_transcript(), the clear under the results lock, the drain
\* of the queue and the two thread starts
LkStart ==
    \/ Go("caller", "idle", "clear_file")
    \/ EnterResults("caller", "clear_file", "clear")
    \/ LeaveResults("caller", "clear", "drain")
    \/ Go("caller", "drain", "idle")

\* _shutdown(): the scheduler join, _stop_active_segments, the sentinel and
\* the transcriber join
LkShutdown ==
    \/ Go("caller", "idle", "join_sched")
    \/ Go("caller", "join_sched", "stop")
    \/ Go("caller", "sentinel", "join_worker")
    \/ Go("caller", "sentinel", "idle")
    \/ Go("caller", "join_worker", "idle")

\* cancel(): the scheduler join, the list taken under the lock, the joins and
\* unlinks, the drain, the sentinel, the transcriber join, and the clear
\* under the results lock
LkCancel ==
    \/ Go("caller", "idle", "cn_join_sched")
    \/ Enter("caller", "cn_join_sched", "cn_take")
    \/ Leave("caller", "cn_take", "cn_each")
    \/ Go("caller", "cn_each", "cn_join_seg")
    \/ Go("caller", "cn_join_seg", "cn_each")
    \/ Go("caller", "cn_each", "cn_drain")
    \/ Go("caller", "cn_drain", "cn_join_worker")
    \/ EnterResults("caller", "cn_drain", "cn_clear")
    \/ EnterResults("caller", "cn_join_worker", "cn_clear")
    \/ LeaveResults("caller", "cn_clear", "cn_file")
    \/ Go("caller", "cn_file", "idle")

LockNext ==
    \/ LkRecorder
    \/ LkWatcher
    \/ LkSchedule
    \/ LkStopActive("sched", "off")
    \/ LkWorker
    \/ LkStart
    \/ LkShutdown
    \/ LkStopActive("caller", "sentinel")
    \/ LkCancel

LockSpec == Init /\ [][LockNext]_vars

\* ------------------------------------------- RecordingSegment.run, by statement
\* One recorder thread followed through its capture loop: the loop test, the
\* blocking stream.read, the put on the amplitude queue and the duration test.
\* The stop event is set and max_duration elapses at any moment; the window's
\* timer takes levels off the amplitude queue at any moment, or not at all.

\* a queue that is full as soon as it holds one level
SinkFullAtOne(n) == n >= 1

\* queue.Queue.full(): `0 < self.maxsize <= self._qsize()`
SinkFull(n) == 0 < maxsize /\ maxsize <= n

\* a loop test that does not look at the stop event
StopSeenNever == FALSE

\* `self.stop_event.is_set()`
StopSeen == recStop

\* `while not self.stop_event.is_set()`: the loop goes on to stream.read or ends
RTest ==
    /\ recPc = "test"
    /\ recPc' = IF StopSeen THEN "exit" ELSE "read"
    /\ StopSeen \/ recFrames < MaxReads
    /\ UNCHANGED <<recFrames, recStop, recDue, recFile, sink, keptAfterStop, keptAfterDue>>
    /\ UNCHANGED <<untimedVars, timeVars, lockVars, svcVars>>

\* stream.read returns a block and `frames.append(chunk.copy())` keeps it
RRead ==
    /\ recPc = "read"
    /\ recPc' = "put"
    /\ recFrames' = recFrames + 1
    /\ keptAfterStop' = keptAfterStop + (IF recStop THEN 1 ELSE 0)
    /\ keptAfterDue' = keptAfterDue + (IF recDue THEN 1 ELSE 0)
    /\ UNCHANGED <<recStop, recDue, recFile, sink>>
    /\ UNCHANGED <<untimedVars, timeVars, lockVars, svcVars>>

\* sd.InputStream or stream.read raises: `except Exception: return`
RError ==
    /\ recPc \in {"test", "read"}
    /\ recPc' = "done"
    /\ UNCHANGED <<recFrames, recStop, recDue, recFile, sink, keptAfterStop, keptAfterDue>>
    /\ UNCHANGED <<untimedVars, timeVars, lockVars, svcVars>>

\* `self.amplitude_queue.put(level)`: a blocking put, which waits while the
\* queue is full
RPut ==
    /\ recPc = "put"
    /\ ~SinkFull(sink)
    /\ sink' = sink + 1
    /\ recPc' = "check"
    /\ UNCHANGED <<recFrames, recStop, recDue, recFile, keptAfterStop, keptAfterDue>>
    /\ UNCHANGED <<untimedVars, timeVars, lockVars, svcVars>>

\* `if time.time() - start >= self.max_duration: break`
RCheck ==
    /\ recPc = "check"
    /\ recPc' = IF recDue THEN "exit" ELSE "test"
    /\ UNCHANGED <<recFrames, recStop, recDue, recFile, sink, keptAfterStop, keptAfterDue>>
    /\ UNCHANGED <<untimedVars, timeVars, lockVars, svcVars>>

\* after the loop: `if not frames: return`, else the artifact is written
RWrite ==
    /\ recPc = "exit"
    /\ recPc' = "done"
    /\ recFile' = (recFrames > 0)
    /\ UNCHANGED <<recFrames, recStop, recDue, sink, keptAfterStop, keptAfterDue>>
    /\ UNCHANGED <<untimedVars, timeVars, lockVars, svcVars>>

\* `seg.stop_event.set()` in _stop_active_segments or cancel()
RSetStop ==
    /\ ~recStop
    /\ recStop' = TRUE
    /\ UNCHANGED <<recPc, recFrames, recDue, recFile, sink, keptAfterStop, keptAfterDue>>
    /\ UNCHANGED <<untimedVars, timeVars, lockVars, svcVars>>

\* time.time() - start reaches max_duration
RElapse ==
    /\ ~recDue
    /\ recPc # "done"
    /\ recDue' = TRUE
    /\ UNCHANGED <<recPc, recFrames, recStop, recFile, sink, keptAfterStop, keptAfterDue>>
    /\ UNCHANGED <<untimedVars, timeVars, lockVars, svcVars>>

\* the window's timer takes a level off the amplitude queue
SinkGet ==
    /\ sink > 0
    /\ sink' = sink - 1
    /\ UNCHANGED <<recPc, recFrames, recStop, recDue, recFile, keptAfterStop, keptAfterDue>>
    /\ UNCHANGED <<untimedVars, timeVars, lockVars, svcVars>>

CaptureNext ==
    RTest \/ RRead \/ RError \/ RPut \/ RCheck \/ RWrite \/ RSetStop \/ RElapse \/ SinkGet

CaptureSpec == Init /\ [][CaptureNext]_vars

\* ------------------------------------- transcription-service: call_with_retry
\* One invocation of call_with_retry followed from call to call. What the LLM
\* answers is an input: the call raises RateLimitError or returns a content of
\* one of the kinds below with its token counts.
\*   "keyed"   a JSON object that has the expected key
\*   "unkeyed" a JSON object without the expected key
\*   "broken"  text that json.loads rejects
\*   "scalar"  a JSON number, true, false or null
Contents == {"keyed", "unkeyed", "broken", "scalar"}

\* the token counts of one completion
Tokens == 0..MaxTokens

\* parse_json(content, expected_key) with the expected key the callers pass:
\* json.loads, then `expected_key not in result`, which raises TypeError on a
\* value that is not a container
ParseJson(content) ==
    CASE content = "keyed" -> "ok"
      [] content = "unkeyed" -> "ValueError"
      [] content = "broken" -> "ValueError"
      [] content = "scalar" -> "TypeError"

\* await asyncio.to_thread(call_llm, ...): call number rtCalls + 1
RtCall(next) ==
    /\ rtCalls' = rtCalls + 1
    /\ \/ /\ rtPc' = "done"
          /\ rtOutcome' = "RateLimitException"
          /\ rtRate' = TRUE
          /\ UNCHANGED <<rtContents, rtIn, rtOut>>
       \/ \E c \in Contents, i \in Tokens, o \in Tokens :
             /\ rtPc' = next
             /\ rtContents' = Append(rtContents, c)
             /\ rtIn' = rtIn + i
             /\ rtOut' = rtOut + o
             /\ UNCHANGED <<rtOutcome, rtRate>>
    /\ UNCHANGED <<rtBillings, rtBilled>>

\* `return {"result": result, "billing": build_billing(total_in, total_out, ...)}`
RtReturnResult ==
    /\ rtPc' = "done"
    /\ rtOutcome' = "result"
    /\ rtBillings' = rtBillings + 1
    /\ rtBilled' = <<rtIn, rtOut>>

\* the first call and its token counts
RtFirstCall ==
    /\ rtPc = "start"
    /\ RtCall("parse")
    /\ UNCHANGED <<untimedVars, timeVars, lockVars, capVars, rlVars>>

\* parse_json on the first content
RtFirstParse ==
    /\ rtPc = "parse"
    /\ CASE ParseJson(rtContents[1]) = "ok" -> RtReturnResult
         [] ParseJson(rtContents[1]) = "ValueError" ->
              /\ rtPc' = "retry"
              /\ UNCHANGED <<rtOutcome, rtBillings, rtBilled>>
         [] OTHER ->
              /\ rtPc' = "done"
              /\ rtOutcome' = ParseJson(rtContents[1])
              /\ UNCHANGED <<rtBillings, rtBilled>>
    /\ UNCHANGED <<rtCalls, rtContents, rtIn, rtOut, rtRate>>
    /\ UNCHANGED <<untimedVars, timeVars, lockVars, capVars, rlVars>>

\* the retry with the fix prompt
RtRetryCall ==
    /\ rtPc = "retry"
    /\ RtCall("reparse")
    /\ UNCHANGED <<untimedVars, timeVars, lockVars, capVars, rlVars>>

\* parse_json on the retry content
RtRetryParse ==
    /\ rtPc = "reparse"
    /\ CASE ParseJson(rtContents[2]) = "ok" -> RtReturnResult
         [] ParseJson(rtContents[2]) = "ValueError" ->
              /\ rtPc' = "done"
              /\ rtOutcome' = "HallucinationException"
              /\ UNCHANGED <<rtBillings, rtBilled>>
         [] OTHER ->
              /\ rtPc' = "done"
              /\ rtOutcome' = ParseJson(rtContents[2])
              /\ UNCHANGED <<rtBillings, rtBilled>>
    /\ UNCHANGED <<rtCalls, rtContents, rtIn, rtOut, rtRate>>
    /\ UNCHANGED <<untimedVars, timeVars, lockVars, capVars, rlVars>>

RetryNext == RtFirstCall \/ RtFirstParse \/ RtRetryCall \/ RtRetryParse

RetrySpec == Init /\ [][RetryNext]_vars

\* ------------------------------------ transcription-service: RateLimitTracker
\* record() and stats() run under self._lock, so each is one step; the clock
\* moves between the calls.

\* `while self._request_times and self._request_times[0] < now - 60: popleft()`
RECURSIVE Pruned(_, _)
Pruned(times, t) ==
    IF times # <<>> /\ Head(times) < t - window THEN Pruned(Tail(times), t) ELSE times

\* RateLimitTracker.record
RlRecord ==
    /\ Len(recorded) < MaxRecords
    /\ requestTimes' = Pruned(Append(requestTimes, rlNow), rlNow)
    /\ recorded' = Append(recorded, rlNow)
    /\ UNCHANGED <<rlNow, rpm>>
    /\ UNCHANGED <<untimedVars, timeVars, lockVars, capVars, rtVars>>

\* stats(): `rpm_used = len(self._request_times)`
StatsUsed == Len(requestTimes)

\* `max(0, self.RPM_LIMIT - rpm_used)`
Remaining(used) == IF RPM_LIMIT - used > 0 THEN RPM_LIMIT - used ELSE 0

\* RateLimitTracker.stats
RlStats ==
    /\ rpm' = [used |-> StatsUsed, remaining |-> Remaining(StatsUsed)]
    /\ UNCHANGED <<rlNow, requestTimes, recorded>>
    /\ UNCHANGED <<untimedVars, timeVars, lockVars, capVars, rtVars>>

\* time.time() moves on
RlTick ==
    /\ rlNow + ClockStep <= MaxClock
    /\ rlNow' = rlNow + ClockStep
    /\ UNCHANGED <<requestTimes, recorded, rpm>>
    /\ UNCHANGED <<untimedVars, timeVars, lockVars, capVars, rtVars>>

TrackerNext == RlRecord \/ RlStats \/ RlTick

TrackerSpec == Init /\ [][TrackerNext]_vars

\* ---------------------------------------------------------------- properties
\* the state of the manager and its threads, the calling thread's position aside
progVars == <<stopAll, paused, schedPc, stopList, active, nextSeg, segPc, frames,
              stopEvt, files, watching, queue, results, transcript, transcriber,
              wPc, wItem, wAttempt, wTexts>>

\* no worker holds an item
WorkersIdle == \A w \in Workers : wPc[w] \in {"dead", "poll"}

\* every filed item has been processed and no lifecycle call is in progress
AllProcessed == callerPc = "idle" /\ RealItems(queue) = {} /\ WorkersIdle

\* the number of workers inside llm.transcribe or its retry loop
InCall == Cardinality({w \in Workers : wPc[w] = "call"})

\* nothing is running and nothing refers to an artifact any more
Quiescent ==
    /\ AllProcessed
    /\ ~running
    /\ \A s \in Segs : segPc[s] # "rec" /\ ~watching[s]

\* every segment so far was captured in the session that is still open
OneSession == firstSeg = 1 /\ ~sinceCancel

\* C1: once the worker has processed every filed segment of a session, the
\* persisted transcript is the texts of the result set joined by single
\* spaces in ascending order of capture-start timestamp
C1_TranscriptSortedJoin ==
    (AllProcessed /\ OneSession) => read_transcript = Join(SortedTexts)

\* C2: from the return of cancel() until the next start(), the transcript
\* reads empty, the result set is empty and no artifact is on storage
C2_CancelLeavesNothing ==
    sinceCancel => read_transcript = <<>> /\ results = <<>> /\ files = {}

\* C3: at most one worker is inside a transcription-client call at any time
C3_OneTranscriptionAtATime == InCall <= 1

\* C4: no artifact outlives the pipeline: when the session is Idle and every
\* thread has finished its work, every artifact written has been deleted
C4_EveryArtifactDeleted == (Quiescent /\ ~paused) => files = {}

\* the worker join of _shutdown returns while the thread is still alive
StopJoinTimedOut == callerPc = "sd_worker" /\ Alive(transcriber)

\* C5: when stop() returns without its worker join having timed out, no item
\* that was queued when it was called, and no artifact it filed itself, is
\* still waiting in the queue for its transcription attempt
C5_StopAttemptsQueued ==
    [][(callOp = "stop" /\ callOp' = "none" /\ ~StopJoinTimedOut)
         => StopFiled \cap RealItems(queue') = {}]_vars

\* C6: every text the transcript held when pause() was called is still in
\* it during the pause and after resume()
C6_PauseResumeKeepsText == pausedTexts \subseteq Letters(read_transcript)

\* C7: start() while the scheduler is running returns at once and leaves the
\* result set, transcript, queue, active set, worker and scheduler as they were
C7_StartWhileRecordingNoop ==
    [][/\ (callerPc = "idle" /\ callOp' = "start" /\ running)
            => (callerPc' = "noop" /\ UNCHANGED progVars)
       /\ (callerPc = "noop" /\ callOp = "start" /\ callerPc' # "noop")
            => (callerPc' = "idle" /\ UNCHANGED progVars)]_vars

C7_Witness ==
    /\ callerPc = "noop"
    /\ callOp = "start"
    /\ results # <<>>
    /\ transcript # NoFile
    /\ active # <<>>
    /\ transcriber # 0
    /\ Alive(transcriber)

\* C8: once start() has reset the session, the result set and the transcript
\* hold only texts of segments captured after that start()
C8_NoTextOfEarlierSession ==
    (callOp # "start" /\ firstSeg > 0) =>
        /\ \A i \in DOMAIN results : results[i].ts >= firstSeg
        /\ \A c \in Letters(read_transcript) : c >= firstSeg

\* C9: a failed call is retried while fewer than max_retries calls have
\* failed, whatever the mix of failures; a call that succeeds, also after
\* exactly max_retries failures, adds the stripped text to the result set,
\* and the write that follows puts that text in the transcript; the failure
\* of call max_retries + 1 adds nothing, deletes the artifact and sends the
\* worker back to polling, and none of this touches the caller
C9_RetryThenSucceedOrDrop ==
    [][\A w \in Workers :
        /\ WCallFail(w) =>
              /\ UNCHANGED <<callerVars, results, transcript>>
              /\ IF wAttempt[w] < max_retries
                 THEN /\ wPc'[w] = "call"
                      /\ wItem'[w] = wItem[w]
                      /\ wAttempt'[w] = wAttempt[w] + 1
                      /\ files' = files
                 ELSE /\ wPc'[w] = "poll"
                      /\ wItem[w] \notin files'
        /\ (WCallOk(w) /\ wPc'[w] = "sort") =>
              /\ UNCHANGED callerVars
              /\ Len(results') = Len(results) + 1
              /\ results'[Len(results')].ts = wItem[w]
              /\ results'[Len(results')].text = <<wItem[w]>>
        /\ (WWrite(w) /\ <<wItem[w]>> \in Range(wTexts[w])) =>
              /\ UNCHANGED callerVars
              /\ wItem[w] \in Letters(transcript')
              /\ wPc'[w] = "poll"]_vars

C9_Witness ==
    \E w \in Workers :
        /\ wPc[w] = "write"
        /\ wAttempt[w] = max_retries
        /\ <<wItem[w]>> \in Range(wTexts[w])

Occurs(q, x) == Cardinality({i \in DOMAIN q : q[i] = x})

\* the timestamps that have an entry in a result list
TsOf(rs) == {rs[i].ts : i \in DOMAIN rs}

\* the letters of a list of texts
LettersOf(texts) == UNION {Letters(texts[i]) : i \in DOMAIN texts}

\* C11: a segment that ends with zero blocks kept writes no artifact; an
\* artifact is only ever created by a recorder that kept a block, only an
\* existing artifact is put on the queue, a worker only holds what it took from
\* the queue, a ResultEntry only comes from the item a worker holds, and text
\* only reaches the transcript from the result set: a zero-block segment
\* never gets an artifact, a queue item, a ResultEntry or transcript text
C11_ZeroBlockSegmentSilent ==
    [][\A s \in Segs :
        /\ (segPc[s] = "rec" /\ segPc'[s] = "done" /\ frames[s] = 0) => s \notin files'
        /\ (s \notin files /\ s \in files') => (RecFinish(s) /\ frames[s] > 0)
        /\ (queue' # queue /\ Occurs(queue', s) > Occurs(queue, s)) => s \in files
        /\ \A w \in Workers :
              /\ (wItem'[w] = s /\ wItem[w] # s) => (queue # <<>> /\ Head(queue) = s)
              /\ (wTexts'[w] # wTexts[w] /\ s \in LettersOf(wTexts'[w]))
                    => s \in TsOf(results)
        /\ (results' # results /\ s \in TsOf(results') /\ s \notin TsOf(results))
              => \E w \in Workers : wPc[w] = "call" /\ wItem[w] = s
        /\ (transcript' # transcript /\ s \in Letters(read_transcript'))
              => \E w \in Workers : wPc[w] = "write" /\ s \in LettersOf(wTexts[w])]_vars

C11_Witness ==
    /\ schedPc = "stopping"
    /\ \E s \in Segs :
          /\ Head(stopList["sched"]) = s
          /\ segPc[s] = "done"
          /\ s \notin files
          /\ frames[s] = 0

\* in how many of the active list a and the taken lists sl segment s is held
Held(a, sl, s) == Occurs(a, s) + Occurs(sl["caller"], s) + Occurs(sl["sched"], s)

\* C12: a segment is held by exactly one of the active set and the lists taken
\* from it by a force-stop or cancel(), it enters the active set only at its
\* spawn, and every step that files its artifact on the queue is the step in
\* which its holder gives it up: each artifact is filed at most once
C12_FiledAtMostOnce ==
    /\ [](\A s \in Segs :
            /\ Held(active, stopList, s) <= 1
            /\ s >= nextSeg => (Held(active, stopList, s) = 0 /\ Occurs(queue, s) = 0))
    /\ [][\A s \in Segs :
            /\ ((active' # active \/ stopList' # stopList)
                  /\ Held(active', stopList', s) > Held(active, stopList, s))
                 => (s = nextSeg /\ nextSeg' = s + 1)
            /\ (queue' # queue /\ Occurs(queue', s) > Occurs(queue, s))
                 => (Held(active, stopList, s) = 1 /\ Held(active', stopList', s) = 0)]_vars

C12_Witness ==
    \E s \in Segs :
        /\ Occurs(queue, s) = 1
        /\ watching[s]
        /\ segPc[s] = "done"

\* C13: the result set holds at most one entry per capture-start timestamp
C13_OneEntryPerSegment ==
    \A i, j \in DOMAIN results : results[i].ts = results[j].ts => i = j

C13_Witness ==
    /\ Len(results) = 2
    /\ pausedTexts # {}
    /\ ~paused

\* the artifact of s is on storage and nothing refers to it any more: its
\* recorder has ended, no list holds the segment, it is not queued and no
\* worker holds it
Orphan(s) ==
    /\ s \in files
    /\ segPc[s] = "done"
    /\ Held(active, stopList, s) = 0
    /\ Occurs(queue, s) = 0
    /\ \A w \in Workers : wItem[w] # s

\* C14: in a session that is only paused and resumed, no segment's captured
\* audio is dropped: an artifact on storage is still held for filing, queued
\* for the worker, or in the hands of a worker
C14_PausedAudioNotLost == (OneSession /\ paused) => \A s \in Segs : ~Orphan(s)

\* C15: the persisted transcript is the space-join of the result set's texts
\* in start_ts order in every state
C15_TranscriptAlwaysMatches == read_transcript = Join(SortedTexts)

\* C16: when stop() or cancel() returns, the scheduler thread is not alive
\* (so a following start() is not refused) and the paused flag is cleared
C16_IdleAfterStopOrCancel ==
    [][(callOp \in {"stop", "cancel"} /\ callOp' = "none")
         => (schedPc' \notin {"run", "spawn", "stopping"} /\ ~paused')]_vars

\* the session is Recording: its scheduler is alive and no pause(), stop() or
\* cancel() has signalled it since the latest start() or resume()
Recording == running /\ ~stopAll

\* C17: pause() while the session is not Recording returns at once and leaves
\* the paused flag, result set, transcript, queue and threads as they were
C17_PauseWhileNotRecordingNoop ==
    [][(callerPc = "idle" /\ callOp' = "pause" /\ ~Recording)
         => (callerPc' = "noop" /\ UNCHANGED progVars)]_vars

\* C18: resume() while Recording, or while the paused flag is clear, returns
\* at once and changes nothing; a resume() that starts a scheduler was called
\* with the paused flag set and no scheduler alive
C18_ResumeGuarded ==
    [][/\ (CallResume /\ (Recording \/ ~paused))
            => (callerPc' = "noop" /\ UNCHANGED progVars)
       /\ (callerPc = "noop" /\ callOp = "resume" /\ callerPc' # "noop")
            => (callerPc' = "idle" /\ UNCHANGED progVars)
       /\ (CallResume /\ schedPc' # schedPc)
            => (paused /\ ~running /\ schedPc' = "run")]_vars

C18_Witness ==
    /\ callerPc = "noop"
    /\ callOp = "resume"
    /\ Recording
    /\ active # <<>>
    /\ results # <<>>

\* ceil(segment_duration / segment_gap)
ActiveBound == (segment_duration + segment_gap - 1) \div segment_gap

\* the session is Recording and its scheduler has made its first spawn
TRecording == tSchedPc = "run" /\ ~tStopAll

\* the recorders of the active set that are capturing
Capturing == {s \in Range(tActive) : tSeg[s] = "rec"}

\* every segment of the active set was spawned less than ActiveBound gaps ago
Timely == \A s \in Range(tActive) : now - tStartedAt[s] < ActiveBound * segment_gap

C21_CancelBypassesWorker ==
    \A s \in cancelActive :
        /\ Occurs(queue, s) = 0
        /\ \A w \in Workers : ~(wPc[w] = "call" /\ wItem[w] = s)

\* C22: the item whose transcription was in flight when the worker join of
\* stop() timed out never gets a ResultEntry, and once stop() has returned with
\* such an item abandoned the transcript is not rewritten before the next start()
C22_InFlightAbandoned ==
    /\ [](abandoned # 0 => abandoned \notin TsOf(results))
    /\ [][(abandoned # 0 /\ abandoned' # 0) => transcript' = transcript]_vars

\* the queue is in ascending start_ts order, the sentinels after every real item
QueueAscending == \A i, j \in DOMAIN queue : i < j => queue[i] <= queue[j]

\* C23: a worker ends only by taking the sentinel from the queue, it takes the
\* sentinel only when no real item is in the queue, and every item it takes is
\* the one with the smallest start_ts among those queued
C23_SentinelTakenLast ==
    /\ []QueueAscending
    /\ [][\A w \in Workers :
            /\ (wPc[w] # "dead" /\ wPc'[w] = "dead")
                 => /\ wPc[w] = "poll" /\ queue # <<>> /\ Head(queue) = INF
                    /\ RealItems(queue) = {}
                    /\ queue' = Tail(queue)
            /\ (wPc[w] = "poll" /\ wPc'[w] = "call")
                 => /\ wItem'[w] \in RealItems(queue)
                    /\ \A x \in RealItems(queue) : wItem'[w] <= x
                    /\ RealItems(queue') = RealItems(queue) \ {wItem'[w]}]_vars

\* a worker is about to take the sentinel after it has taken every real item
\* that was queued in front of it
C23_Witness ==
    /\ queue # <<>> /\ Head(queue) = INF
    /\ \E w \in Workers : wPc[w] = "poll"
    /\ \E s \in Segs : s \in TsOf(results) /\ s \notin files
    /\ callerPc = "sd_worker"

\* C24: the attempt index of an item never exceeds max_retries, so at most
\* max_retries + 1 calls are made for it; a call that fails, for either reason,
\* before the last attempt is followed by one more call for the same item, the
\* failure of the last attempt ends the calls, and so does the first call that
\* returns
C24_RetryBudget ==
    /\ [](\A w \in Workers : wAttempt[w] \in 0..max_retries)
    /\ [][\A w \in Workers :
            (wPc[w] = "call" /\ (wPc'[w] # "call" \/ wAttempt'[w] # wAttempt[w]))
              => /\ (WCallFail(w) /\ wAttempt[w] < max_retries)
                      => /\ wPc'[w] = "call" /\ wItem'[w] = wItem[w]
                         /\ wAttempt'[w] = wAttempt[w] + 1
                 /\ (WCallFail(w) /\ wAttempt[w] = max_retries)
                      => (wPc'[w] = "poll" /\ wAttempt'[w] = 0)
                 /\ WCallOk(w) => wPc'[w] \in {"sort", "poll"}
                 /\ wPc'[w] = "call" => wAttempt'[w] = wAttempt[w] + 1]_vars

\* a worker is inside call number max_retries + 1 for its item
C24_Witness ==
    \E w \in Workers :
        /\ wPc[w] = "call" /\ wAttempt[w] = max_retries
        /\ wItem[w] \in files
        /\ callerPc = "idle"

\* C25: when a worker is done with the item it took, whether the text was
\* written, was empty or the retries ran out, the item's artifact is not on
\* storage and the worker is polling the queue again; the step that gives an
\* item up without a text leaves the result set and the transcript as they were;
\* a worker that holds an item never ends
C25_ArtifactDeletedWorkerGoesOn ==
    [][\A w \in Workers :
         /\ (wPc[w] \in {"call", "sort", "write"} /\ wPc'[w] # wPc[w])
              => /\ wPc'[w] \in {"call", "sort", "write", "poll"}
                 /\ wPc'[w] = "poll" => (wItem[w] \notin files' /\ wItem'[w] = 0)
         /\ (wPc[w] = "call" /\ wPc'[w] = "poll")
              => (results' = results /\ transcript' = transcript)
         /\ (WCallFail(w) /\ LastAttempt(wAttempt[w])) => wPc'[w] = "poll"]_vars

\* the last call for an item is in progress, its artifact is on storage and
\* another item is waiting in the queue
C25_Witness ==
    \E w \in Workers :
        /\ wPc[w] = "call" /\ wAttempt[w] = max_retries
        /\ wItem[w] \in files
        /\ queue # <<>> /\ Head(queue) # INF

\* C26: a capture that is aborted by a device error after it has read at
\* least one block leaves an artifact holding the blocks read so far
C26_PartialAudioPersisted ==
    [][\A s \in Segs : (RecError(s) /\ frames[s] >= 1) => s \in files']_vars

\* C27: the step in which a capture fails ends the segment and changes
\* nothing else: no artifact appears, nothing is queued or appended, and the
\* scheduler, the watcher, the workers and the caller are where they were; a
\* segment that has ended stays ended, an artifact is only ever written by a
\* capture that ends without failing, and only an existing artifact is put on
\* the queue, so the failed segment never files an item or gets a ResultEntry
C27_DeviceErrorSilent ==
    [][\A s \in Segs :
         /\ (segPc[s] = "rec" /\ segPc'[s] = "done" /\ frames[s] >= 1 /\ s \notin files')
              => /\ RecError(s)
                 /\ UNCHANGED <<callerVars, schedPc, stopAll, paused, active, stopList,
                                watching, queue, results, transcript, transcriber,
                                workerVars, files>>
         /\ RecError(s) => (s \notin files' /\ segPc'[s] = "done")
         /\ segPc[s] = "done" => segPc'[s] = "done"
         /\ (s \notin files /\ s \in files')
              => (segPc[s] = "rec" /\ frames[s] >= 1 /\ ~RecError(s))
         /\ (queue' # queue /\ Occurs(queue', s) > Occurs(queue, s)) => s \in files]_vars

\* a segment that nobody told to stop has ended and left no artifact
C27_Witness ==
    \E s \in Segs :
        /\ segPc[s] = "done" /\ s \in Range(active) /\ s \notin files
        /\ ~stopAll

\* the force-stop of the scheduler thread: when the loop ends the whole active
\* set is taken; the segment whose join is awaited has been told to stop; a
\* segment whose join returns with its artifact written is put on the queue
\* in that step; and the join in progress can always return
ForceStopFiles ==
    /\ [](schedPc = "stopping"
            => /\ stopList["sched"] # <<>>
               /\ LET s == Head(stopList["sched"]) IN stopEvt[s] \/ segPc[s] # "rec"
               /\ ENABLED SchedJoinSeg)
    /\ [][/\ (schedPc \in {"run", "spawn"} /\ schedPc' \in {"stopping", "dead"})
               => (stopAll /\ active' = <<>> /\ stopList'["sched"] = active)
          /\ (schedPc = "stopping" /\ stopList'["sched"] # stopList["sched"])
               => LET s == Head(stopList["sched"])
                  IN /\ stopList'["sched"] = Tail(stopList["sched"])
                     /\ (segPc[s] = "done" /\ s \in files)
                          => Occurs(queue', s) = Occurs(queue, s) + 1
                     /\ stopList'["sched"] = <<>> => schedPc' = "dead"]_vars

\* C28 as stated: no segment is spawned once _stop_all is set, and the
\* scheduler's force-stop takes, signals, and files every active segment
C28_NoSpawnAfterStop ==
    /\ [][nextSeg' # nextSeg => ~stopAll]_vars
    /\ ForceStopFiles

\* C28: once _stop_all is set no pass of the spawn loop begins, so at most the
\* one segment whose pass had already passed the loop test is still spawned,
\* and it joins the active set before the force-stop takes it; the
\* scheduler's force-stop takes, signals, and files every active segment
C28_NoNewPassAfterStop ==
    /\ [][/\ nextSeg' # nextSeg => (schedPc = "spawn" /\ schedPc' = "run")
          /\ (schedPc # "spawn" /\ schedPc' = "spawn") => ~stopAll
          /\ (schedPc = "spawn" /\ schedPc' # "spawn")
               => (nextSeg' = nextSeg + 1 /\ active' = Append(active, nextSeg))]_vars
    /\ ForceStopFiles

\* the scheduler's force-stop is about to file a segment that has ended with
\* its artifact written, and a second segment is waiting for its stop signal
C28_Witness ==
    /\ schedPc = "stopping"
    /\ Len(stopList["sched"]) = 2
    /\ LET s == Head(stopList["sched"]) IN segPc[s] = "done" /\ s \in files
    /\ segPc[stopList["sched"][2]] = "rec"

\* C29: a resume() called after pause() has returned starts a scheduler, so
\* the session is Recording again, leaves exactly one worker thread alive, and
\* keeps the result set, the transcript and the queue as they were
C29_ResumeAlwaysRestarts ==
    [][(CallResume /\ paused)
         => /\ callerPc' = "idle"
            /\ schedPc' = "run" /\ ~stopAll' /\ ~paused'
            /\ Cardinality({w \in Workers : wPc'[w] # "dead"}) = 1
            /\ results' = results /\ transcript' = transcript /\ queue' = queue]_vars

\* the statements at which a thread is blocked in stream.read, in
\* llm.transcribe, in the backoff time.sleep or in a Thread.join
BlockedAt ==
    {"read", "call", "sleep", "join", "join_seg", "join_sched", "join_worker",
     "cn_join_sched", "cn_join_seg", "cn_join_worker"}

\* the statements inside a `with self._lock:` block
ActiveSetOps == {"append", "remove", "put", "take", "cn_take"}

\* the statements inside a `with self._results_lock:` block
ResultSetOps == {"append", "sort", "clear", "cn_clear"}

C31_StopWithinOneBlock ==
    /\ [](/\ keptAfterStop <= 1
          /\ keptAfterDue <= 1
          /\ recPc = "exit" => ENABLED RWrite)
    /\ [][/\ (recPc # "read" /\ recPc' = "read") => ~recStop
          /\ (recPc = "test" /\ recStop /\ recPc' # "test") => recPc' \in {"exit", "done"}
          /\ (recPc = "check" /\ recDue /\ recPc' # "check") => recPc' = "exit"
          /\ (recPc = "exit" /\ recPc' # "exit")
               => (recPc' = "done" /\ recFile' = (recFrames > 0))]_vars

\* a recorder has ended with its artifact written after it kept the one block
\* whose read was in progress when the stop event was set
C31_Witness ==
    /\ recPc = "done" /\ recFile
    /\ keptAfterStop = 1 /\ recFrames >= 2 /\ ~recDue

MissedJoin(s) == segPc[s] = "rec" /\ Held(active, stopList, s) = 0

\* C33: when a recorder that was still capturing after its force-stop join
\* returned writes its artifact, the artifact is in the hands of a thread that
\* will file or delete it: the segment is in the active set or in a taken
\* list, or the artifact is on the queue or held by a worker
C33_LateArtifactAccounted ==
    [][\A s \in Segs :
         (MissedJoin(s) /\ s \notin files /\ s \in files')
           => \/ Held(active', stopList', s) > 0
              \/ Occurs(queue', s) > 0
              \/ \E w \in Workers : wItem'[w] = s]_vars

\* C34: when start() empties the pending queue, no artifact of an item it
\* discards is left on storage
C34_StartDeletesDiscarded ==
    [][(callerPc = "start_spawn" /\ callerPc' # "start_spawn")
         => RealItems(queue) \cap files' = {}]_vars

C36_OneSentinelLiveWorker ==
    /\ [](Occurs(queue, INF) <= 1)
    /\ [][(queue' # queue /\ Occurs(queue', INF) > Occurs(queue, INF))
            => \E w \in Workers : Alive(w)]_vars

\* thread t has a next statement it can go on to as the locks stand
CanGoOn(t) == ENABLED (LockNext /\ at'[t] # at[t])

\* C37: no thread holds self._lock and self._results_lock together, and the
\* thread that holds either lock can always go on to the end of its `with`
\* block, so no thread waits for a lock for ever
C37_LocksNeverNested ==
    /\ lockOwner # "none" => resultsLockOwner # lockOwner
    /\ lockOwner # "none" => CanGoOn(lockOwner)
    /\ resultsLockOwner # "none" => CanGoOn(resultsLockOwner)

\* the two locks are held at once, by two threads: the scheduler appends to
\* the active set while the worker appends to the result set, and the caller
\* waits for the active-set lock
C37_Witness ==
    /\ lockOwner = "sched" /\ resultsLockOwner = "worker"
    /\ at["caller"] \in {"stop", "cn_join_sched"}

\* the content is a JSON value with the expected key
Valid(content) == content = "keyed"

\* C38: an invocation makes at most two calls; when it is over, a call that
\* hit the rate limit has made it raise RateLimitException; otherwise a valid
\* first or retry content has made it return the result with build_billing
\* called once on the token totals of the calls made, and two contents that
\* are both not valid have made it raise HallucinationException
C38_TwoCallsThenGiveUp ==
    /\ rtCalls <= 2
    /\ rtBillings <= 1
    /\ rtPc = "done" =>
         IF rtRate THEN rtOutcome = "RateLimitException" /\ rtBillings = 0
         ELSE IF \E i \in DOMAIN rtContents : Valid(rtContents[i])
         THEN /\ rtOutcome = "result"
              /\ Valid(rtContents[Len(rtContents)])
              /\ rtCalls = Len(rtContents)
              /\ rtBillings = 1 /\ rtBilled = <<rtIn, rtOut>>
         ELSE /\ rtOutcome = "HallucinationException"
              /\ rtCalls = 2 /\ rtBillings = 0

\* the record() calls made within the 60 seconds before time t
Recent(t) == Cardinality({i \in DOMAIN recorded : recorded[i] >= t - window})

\* C39: stats() reports as rpm.used the number of record() calls of the last
\* 60 seconds and as rpm.remaining what is left of RPM_LIMIT, never less than 0
C39_RpmCountsLastMinute ==
    [][RlStats => /\ rpm'.used = Recent(rlNow)
                  /\ rpm'.remaining = Remaining(rpm'.used)
                  /\ rpm'.remaining \in 0..RPM_LIMIT]_vars

====
